---- MODULE Spec2Model ----
(***************************************************************************)
(* bakscanner (src/app.py): the concurrent scan engine.  A create-task     *)
(* request registers a task and starts an orchestrator thread              *)
(* (scan_worker); the orchestrator fans one prober (scan_single_target)    *)
(* per target out over a bounded thread pool; every write of the task goes *)
(* through TASKS_LOCK; the progress handler reads the task.                *)
(*                                                                         *)
(* Strings are sequences of one-character strings, so that strip, lower,   *)
(* startswith, endswith, "in" and int() are computed, not assumed.         *)
(***************************************************************************)
EXTENDS Integers, Sequences, FiniteSets, TLC

VARIABLES
    request,    \* the create-task request a client has sent, per request slot
    TASKS,      \* the registry: task id -> task record
    reply,      \* what start_scan returned to its caller, per request
    worker,     \* the orchestrator thread of each task (scan_worker)
    prober,     \* the scan_single_target invocation of each target
    queue,      \* the executor's work queue: submitted, not yet picked up
    files,      \* the download directory: save_path -> number of writes
    reader,     \* the progress handler's invocation (one polling client)
    fn          \* harness of the pure functions: input and result

vars == <<request, TASKS, reply, worker, prober, queue, files, reader, fn>>

\* Python's None where a string is expected (no string of characters equals it)
None == <<"None">>

(***************************************************************************)
(* String helpers (Python's str methods as the code uses them).            *)
(***************************************************************************)
\* str.startswith
StartsWith(s, p) == Len(s) >= Len(p) /\ SubSeq(s, 1, Len(p)) = p

\* str.endswith
EndsWith(s, p) == Len(s) >= Len(p) /\ SubSeq(s, Len(s) - Len(p) + 1, Len(s)) = p

\* the "in" operator on strings
Contains(s, p) == \E i \in 1..(Len(s) - Len(p) + 1) : SubSeq(s, i, i + Len(p) - 1) = p

\* str.lower on one character (the upper-case letters the inputs use)
LowerChar(c) ==
    CASE c = "A" -> "a" [] c = "B" -> "b" [] c = "C" -> "c" [] c = "H" -> "h"
      [] c = "I" -> "i" [] c = "K" -> "k" [] c = "L" -> "l" [] c = "M" -> "m"
      [] c = "P" -> "p" [] c = "T" -> "t" [] c = "U" -> "u" [] c = "Z" -> "z"
      [] OTHER -> c

\* str.lower
Lower(s) == [i \in 1..Len(s) |-> LowerChar(s[i])]

IsSpace(c) == c = " "

\* str.strip: drop leading and trailing whitespace
RECURSIVE LStrip(_)
LStrip(s) == IF s # <<>> /\ IsSpace(Head(s)) THEN LStrip(Tail(s)) ELSE s

RECURSIVE RStrip(_)
RStrip(s) == IF s # <<>> /\ IsSpace(s[Len(s)]) THEN RStrip(SubSeq(s, 1, Len(s) - 1)) ELSE s

Strip(s) == RStrip(LStrip(s))

IsDigit(c) == c \in {"0", "1", "2", "3", "4", "5", "6", "7", "8", "9"}

DigitVal(c) ==
    CASE c = "0" -> 0 [] c = "1" -> 1 [] c = "2" -> 2 [] c = "3" -> 3 [] c = "4" -> 4
      [] c = "5" -> 5 [] c = "6" -> 6 [] c = "7" -> 7 [] c = "8" -> 8 [] c = "9" -> 9

RECURSIVE DigitsVal(_)
DigitsVal(s) == IF s = <<>> THEN 0 ELSE 10 * DigitsVal(SubSeq(s, 1, Len(s) - 1)) + DigitVal(s[Len(s)])

\* int(str): surrounding whitespace, an optional sign, then one or more digits;
\* anything else raises ValueError (ok = FALSE).
IntParse(raw) ==
    LET s      == Strip(raw)
        signed == s # <<>> /\ Head(s) \in {"-", "+"}
        digits == IF signed THEN Tail(s) ELSE s
        ok     == digits # <<>> /\ \A i \in 1..Len(digits) : IsDigit(digits[i])
    IN  [ok  |-> ok,
         val |-> IF ~ok THEN 0
                 ELSE IF signed /\ Head(s) = "-" THEN 0 - DigitsVal(digits)
                 ELSE DigitsVal(digits)]

(***************************************************************************)
(* Program constants.                                                      *)
(***************************************************************************)
S_bak == <<".", "b", "a", "k">>
S_zip == <<".", "z", "i", "p">>
S_rar == <<".", "r", "a", "r">>
S_7z == <<".", "7", "z">>
S_tar == <<".", "t", "a", "r">>
S_targz == <<".", "t", "a", "r", ".", "g", "z">>
S_tgz == <<".", "t", "g", "z">>
S_sql == <<".", "s", "q", "l">>
S_db == <<".", "d", "b">>
S_old == <<".", "o", "l", "d">>
S_backup == <<".", "b", "a", "c", "k", "u", "p">>

BACKUP_SUFFIXES ==
    {S_bak, S_zip, S_rar, S_7z, S_tar, S_targz, S_tgz, S_sql, S_db, S_old, S_backup}

TEXT_HTML == <<"t", "e", "x", "t", "/", "h", "t", "m", "l">>

\* 2 * 1024 * 1024
HtmlSizeLimit == 2097152

DefaultWorkers == 5

MinWorkers == 1

MaxWorkers == 50

(***************************************************************************)
(* looks_like_backup and the classification of a response                  *)
(* (scan_single_target, lines 122-146).                                    *)
(***************************************************************************)
looks_like_backup(url) ==
    LET lower == Lower(url)
    IN  \E s \in BACKUP_SUFFIXES : EndsWith(lower, s)

\* (resp.headers.get("Content-Type") or "").lower()
ContentTypeOf(header) == IF header = None THEN <<>> ELSE Lower(header)

\* int(resp.headers.get("Content-Length") or 0): a missing or empty header is 0,
\* any other value goes through int(), which may raise.
ContentLengthOf(header) ==
    IF header = None \/ header = <<>> THEN [ok |-> TRUE, val |-> 0] ELSE IntParse(header)

StatusAccepted(code) == code \in {200, 206}

\* SmallHtml with the limit itself counted as small (<= for <)
SmallHtml_Inclusive(content_type, content_length) ==
    Contains(content_type, TEXT_HTML) /\ content_length <= HtmlSizeLimit

SmallHtml(content_type, content_length) ==
    Contains(content_type, TEXT_HTML) /\ content_length < HtmlSizeLimit

\* "match": the body is saved; "html": skipped as an HTML page; "invalid": the
\* else branch.  content_type is the header as received.
Classify(code, content_type_header, content_length, url) ==
    LET content_type == ContentTypeOf(content_type_header)
    IN  IF StatusAccepted(code) /\ looks_like_backup(url)
        THEN IF SmallHtml(content_type, content_length) THEN "html" ELSE "match"
        ELSE "invalid"

(***************************************************************************)
(* start_scan, step 4: the requested worker count.  threads_raw is the     *)
(* form field, None when the field is absent.                              *)
(***************************************************************************)
\* ClampLow that lets 0 through (< for <=)
ClampLow_Strict(n) == IF n < 0 THEN MinWorkers ELSE n

ClampLow(n) == IF n <= 0 THEN MinWorkers ELSE n

ClampHigh(n) == IF n > MaxWorkers THEN MaxWorkers ELSE n

ResolveWorkers(threads_raw) ==
    LET given  == IF threads_raw = None THEN <<"5">> ELSE threads_raw
        text   == IF given = <<>> THEN <<"5">> ELSE given
        parsed == IntParse(Strip(text))
        n      == IF parsed.ok THEN parsed.val ELSE DefaultWorkers
    IN  ClampHigh(ClampLow(n))

(***************************************************************************)
(* normalize_base_url, urljoin and the storage path of a match.            *)
(***************************************************************************)
HTTP == <<"h", "t", "t", "p", ":", "/", "/">>

HTTPS == <<"h", "t", "t", "p", "s", ":", "/", "/">>

SLASH == <<"/">>

SCHEME_SEP == <<":", "/", "/">>

normalize_base_url(raw) ==
    LET url     == Strip(raw)
        schemed == IF ~StartsWith(url, HTTP) /\ ~StartsWith(url, HTTPS)
                   THEN HTTP \o url ELSE url
    IN  IF url = <<>> THEN <<>>
        ELSE IF ~EndsWith(schemed, SLASH) THEN schemed \o SLASH ELSE schemed

\* urljoin(base_url, path) for a base that ends with "/" and a plain relative
\* path (no scheme, no leading "/", no dot segment): the path is appended.
urljoin(base_url, path) == base_url \o path

\* str.replace of one character
Replace(s, a, b) == [i \in 1..Len(s) |-> IF s[i] = a THEN b ELSE s[i]]

\* str.find: the first index (from 1) at which p occurs in s, 0 when it does not
RECURSIVE FindFrom(_, _, _)
FindFrom(s, p, i) ==
    IF i + Len(p) - 1 > Len(s) THEN 0
    ELSE IF SubSeq(s, i, i + Len(p) - 1) = p THEN i
    ELSE FindFrom(s, p, i + 1)

Find(s, p) == FindFrom(s, p, 1)

\* url.split("://", 1)[-1]
AfterScheme(url) ==
    LET i == Find(url, SCHEME_SEP)
    IN  IF i = 0 THEN url ELSE SubSeq(url, i + 3, Len(url))

\* urlparse(base_url).netloc: between "://" and the next "/"
Netloc(url) ==
    LET rest == AfterScheme(url)
        i    == Find(rest, SLASH)
    IN  IF i = 0 THEN rest ELSE SubSeq(rest, 1, i - 1)

host_tag(base_url) == Replace(Netloc(base_url), ":", "_")

safe_name(resp_url) == Replace(AfterScheme(resp_url), "/", "_")

\* os.path.join(output_dir, host_tag, safe_name), relative to DOWNLOAD_DIR
save_path(base_url, resp_url) == host_tag(base_url) \o SLASH \o safe_name(resp_url)

(***************************************************************************)
(* The inputs of the model: create-task requests and the answers of the    *)
(* scanned hosts.                                                          *)
(***************************************************************************)
T_a == <<"a">>

T_b == <<"b">>

T_c == <<"c">>

T_d == <<"d">>

T_e == <<"e">>

T_blank == <<" ">>

P_xdb == <<"x", ".", "d", "b">>

P_slash_xdb == <<"/", "x", ".", "d", "b">>

W_1 == <<"1">>

W_2 == <<"2">>

NoFile == [given |-> FALSE, readable |-> TRUE, lines |-> <<>>]

Unreadable == [given |-> TRUE, readable |-> FALSE, lines |-> <<>>]

Upload(lines) == [given |-> TRUE, readable |-> TRUE, lines |-> lines]

Req(tt, tf, dt, df, th) ==
    [targets_text |-> tt, targets_file |-> tf, dict_text |-> dt, dict_file |-> df,
     threads |-> th]

\* The longest dictionary a request of the model carries.
MaxPaths == 2

\* The create-task requests a client may send: two targets on two pool threads
\* and on one; one target (given twice) with a dictionary of MaxPaths lines, the
\* same path each; three targets on two pool threads; two targets with the same
\* path twice; no dictionary at all; and the requests that are refused.
Requests ==
    { Req(<<T_a, T_b>>, NoFile, <<P_xdb>>, NoFile, W_2),
      Req(<<T_a>>, Upload(<<T_b, T_a>>), <<P_xdb>>, NoFile, W_1),
      Req(<<T_a, T_blank, T_a>>, NoFile, <<P_slash_xdb>>,
          Upload([j \in 1..(MaxPaths - 1) |-> P_xdb]), None),
      Req(<<T_c, T_d, T_e>>, NoFile, <<P_xdb>>, NoFile, W_2),
      Req(<<T_c, T_d>>, NoFile, <<P_xdb, P_xdb>>, NoFile, W_2),
      Req(<<T_c>>, NoFile, <<>>, NoFile, None),
      Req(<<T_blank>>, NoFile, <<P_xdb>>, NoFile, None),
      Req(<<T_a>>, Unreadable, <<P_xdb>>, NoFile, None),
      Req(<<T_a>>, NoFile, <<>>, Unreadable, None) }

\* The request slots of the model (one request, so one task id).
Reqs == {1}

CT_html == <<"t", "e", "x", "t", "/", "h", "t", "m", "l", ";", " ", "c", "h", "a", "r", "s", "e", "t", "=", "u", "t", "f", "-", "8">>

CT_octet == <<"a", "p", "p", "l", "i", "c", "a", "t", "i", "o", "n", "/", "o", "c", "t", "e", "t", "-", "s", "t", "r", "e", "a", "m">>

L_100 == <<"1", "0", "0">>

L_1000 == <<"1", "0", "0", "0">>

L_junk == <<"x">>

Resp(code, ct, cl, url) == [err |-> FALSE, code |-> code, ct |-> ct, cl |-> cl, url |-> url]

\* session.get raised requests.RequestException
TransportError == [err |-> TRUE, code |-> 0, ct |-> None, cl |-> None, url |-> <<>>]

\* What a request of full_url may come back with: a transport error, or a response
\* (status, Content-Type, Content-Length, final URL).  The hosts c, d and e answer
\* every path with 404.
ServerAnswers(full_url) ==
    IF Netloc(full_url) \in {T_c, T_d, T_e}
    THEN { Resp(404, CT_html, None, full_url) }
    ELSE
    { TransportError,
      Resp(200, CT_octet, L_100, full_url),
      Resp(200, CT_html, L_1000, full_url),
      Resp(404, CT_html, None, full_url),
      Resp(200, CT_octet, L_junk, full_url) }

(***************************************************************************)
(* start_scan: the target list, the dictionary, the task.                  *)
(***************************************************************************)
NonEmpty(s) == s # <<>>

\* for line in lines: line = line.strip(); if line: append
CleanTargets(lines) == SelectSeq([i \in 1..Len(lines) |-> Strip(lines[i])], NonEmpty)

RECURSIVE LStripSlashes(_)
LStripSlashes(s) ==
    IF s # <<>> /\ Head(s) \in {"/", "\\"} THEN LStripSlashes(Tail(s)) ELSE s

StripPath(line) == LStripSlashes(Strip(line))

\* line = line.strip().lstrip("/\\"); if line: append
CleanPaths(lines) == SelectSeq([i \in 1..Len(lines) |-> StripPath(lines[i])], NonEmpty)

\* list(dict.fromkeys(targets)): the first occurrence of each, in order
RECURSIVE Dedup(_)
Dedup(s) ==
    IF s = <<>> THEN <<>>
    ELSE LET init == Dedup(SubSeq(s, 1, Len(s) - 1))
             last == s[Len(s)]
         IN  IF \E i \in 1..Len(init) : init[i] = last THEN init ELSE Append(init, last)

DEFAULT_PATHS ==
    << <<"i", "n", "d", "e", "x", ".", "p", "h", "p", ".", "b", "a", "k">>,
       <<"i", "n", "d", "e", "x", ".", "j", "s", "p", ".", "b", "a", "k">>,
       <<"c", "o", "n", "f", "i", "g", ".", "p", "h", "p", ".", "b", "a", "k">>,
       <<"w", "w", "w", "r", "o", "o", "t", ".", "z", "i", "p">>,
       <<"w", "e", "b", "s", "i", "t", "e", ".", "z", "i", "p">>,
       <<"b", "a", "c", "k", "u", "p", ".", "z", "i", "p">>,
       <<"s", "i", "t", "e", "_", "b", "a", "c", "k", "u", "p", ".", "z", "i", "p">>,
       <<"d", "b", ".", "s", "q", "l">>,
       <<"b", "a", "c", "k", "u", "p", ".", "s", "q", "l">> >>

ResolveTargets(req) ==
    Dedup(CleanTargets(req.targets_text)
          \o (IF req.targets_file.given THEN CleanTargets(req.targets_file.lines) ELSE <<>>))

ResolvePaths(req) ==
    LET paths == CleanPaths(req.dict_text)
                 \o (IF req.dict_file.given THEN CleanPaths(req.dict_file.lines) ELSE <<>>)
    IN  IF paths = <<>> THEN DEFAULT_PATHS ELSE paths

NewTarget(t) == [name |-> t, status |-> "pending", found |-> 0]

NewTask(task_id, targets, paths, max_workers) ==
    [id               |-> task_id,
     logs             |-> <<>>,
     targets          |-> [i \in 1..Len(targets) |-> NewTarget(targets[i])],
     total_targets    |-> Len(targets),
     finished_targets |-> 0,
     paths            |-> paths,
     max_workers      |-> max_workers,
     done             |-> FALSE]

NoReply == [code |-> 0, task_id |-> 0]

IdleWorker == [pc |-> "none", P |-> 0, i |-> 0]

IdleProber == [pc |-> "new", k |-> 0, found_count |-> 0, url |-> <<>>, n |-> 0]

\* The handler, whole.  An unreadable upload and an empty target list are answered
\* 400 before anything is stored.  Otherwise the task is stored in TASKS and the
\* orchestrator thread is started; Thread.start() raising (started = FALSE) lands in
\* the handler's except clause, which answers 500 and leaves TASKS as it is.
start_scan(r) ==
    /\ reply[r] = NoReply
    /\ \E started \in BOOLEAN :
          LET req         == request[r]
              targets     == ResolveTargets(req)
              paths       == ResolvePaths(req)
              max_workers == ResolveWorkers(req.threads)
              task_id     == r
          IN  IF \/ req.targets_file.given /\ ~req.targets_file.readable
                 \/ targets = <<>>
                 \/ req.dict_file.given /\ ~req.dict_file.readable
              THEN /\ reply' = [reply EXCEPT ![r] = [code |-> 400, task_id |-> 0]]
                   /\ UNCHANGED <<TASKS, worker, prober>>
              ELSE /\ TASKS' = (task_id :> NewTask(task_id, targets, paths, max_workers)) @@ TASKS
                   /\ prober' = [prober EXCEPT ![task_id] = [i \in 1..Len(targets) |-> IdleProber]]
                   /\ IF started
                      THEN /\ worker' = [worker EXCEPT ![task_id].pc = "l158"]
                           /\ reply' = [reply EXCEPT ![r] = [code |-> 200, task_id |-> task_id]]
                      ELSE /\ worker' = worker
                           /\ reply' = [reply EXCEPT ![r] = [code |-> 500, task_id |-> 0]]
    /\ UNCHANGED <<request, queue, files, reader, fn>>

(***************************************************************************)
(* The task's writers.  Each of log_line, update_target_status and the     *)
(* increment of finished_targets holds TASKS_LOCK for its whole body, so   *)
(* each is one atomic step; a thread's steps between two of them touch     *)
(* only its own locals and are folded into the step that follows.          *)
(***************************************************************************)
\* A log line: its kind (the format string), the URL or path in it, its numbers.
Msg(k, u, n) == [k |-> k, u |-> u, n |-> n]

\* log_line that inserts at the front (insert(0, msg) for append(msg))
log_line_Prepend(task, msg) == [task EXCEPT !.logs = <<msg>> \o @]

\* task["logs"].append(msg)
log_line(task, msg) == [task EXCEPT !.logs = Append(@, msg)]

\* for k, v in kwargs.items(): task["targets"][index][k] = v
update_target_status(task, index, kwargs) ==
    [task EXCEPT !.targets[index] =
        [f \in DOMAIN @ |-> IF f \in DOMAIN kwargs THEN kwargs[f] ELSE @[f]]]

\* task["finished_targets"] += 1
IncrementFinished(task) == [task EXCEPT !.finished_targets = @ + 1]

\* task["done"] = True
MarkDone(task) == [task EXCEPT !.done = TRUE]

Min(a, b) == IF a <= b THEN a ELSE b

\* PoolSize that sizes the pool by the targets alone
PoolSize_IgnoresRequested(task) == IF Len(task.targets) < 1 THEN 1 ELSE Len(task.targets)

\* max_workers = min(len(targets), task["max_workers"]); if max_workers < 1: 1
PoolSize(task) ==
    LET m == Min(Len(task.targets), task.max_workers)
    IN  IF m < 1 THEN 1 ELSE m

Finished(p) == p.pc \in {"returned", "raised"}

\* A prober that a pool thread is executing.
Executing(p) == p.pc \notin {"new", "queued", "returned", "raised"}

Running(tid) == Cardinality({i \in DOMAIN prober[tid] : Executing(prober[tid][i])})

(***************************************************************************)
(* scan_worker: the orchestrator thread of task tid.                       *)
(***************************************************************************)
\* lines 158-170: look the task up, size the pool, first log line
WorkerBegin(tid) ==
    /\ worker[tid].pc = "l158"
    /\ tid \in DOMAIN TASKS
    /\ TASKS' = [TASKS EXCEPT ![tid] =
                    log_line(@, Msg("task_start", <<>>, PoolSize(TASKS[tid])))]
    /\ worker' = [worker EXCEPT ![tid] = [pc |-> "l171", P |-> PoolSize(TASKS[tid]), i |-> 0]]
    /\ UNCHANGED <<request, reply, prober, queue, files, reader, fn>>

\* line 171
WorkerLogDir(tid) ==
    /\ worker[tid].pc = "l171"
    /\ TASKS' = [TASKS EXCEPT ![tid] = log_line(@, Msg("save_dir", <<>>, 0))]
    /\ worker' = [worker EXCEPT ![tid].pc = "l176", ![tid].i = 1]
    /\ UNCHANGED <<request, reply, prober, queue, files, reader, fn>>

\* lines 176-179: executor.submit(scan_single_target, idx, ...) for the next target
WorkerSubmit(tid) ==
    LET i == worker[tid].i
    IN  /\ worker[tid].pc = "l176"
        /\ i <= Len(TASKS[tid].targets)
        /\ prober' = [prober EXCEPT ![tid][i].pc = "queued"]
        /\ queue' = [queue EXCEPT ![tid] = Append(@, i)]
        /\ worker' = [worker EXCEPT ![tid].i = i + 1]
        /\ UNCHANGED <<request, TASKS, reply, files, reader, fn>>

\* WorkerSubmitted that leaves the loop one target early
WorkerSubmitted_Early(tid) ==
    /\ worker[tid].pc = "l176"
    /\ worker[tid].i >= Len(TASKS[tid].targets)
    /\ worker' = [worker EXCEPT ![tid].pc = "l184", ![tid].i = 1]
    /\ UNCHANGED <<request, TASKS, reply, prober, queue, files, reader, fn>>

\* line 182: every target is submitted, start collecting
WorkerSubmitted(tid) ==
    /\ worker[tid].pc = "l176"
    /\ worker[tid].i > Len(TASKS[tid].targets)
    /\ worker' = [worker EXCEPT ![tid].pc = "l184", ![tid].i = 1]
    /\ UNCHANGED <<request, TASKS, reply, prober, queue, files, reader, fn>>

\* WorkerResult without the try/except around f.result(): the prober's exception
\* leaves the loop unlogged and goes straight to the finally clause
WorkerResult_Propagates(tid) ==
    LET i == worker[tid].i
    IN  /\ worker[tid].pc = "l184"
        /\ i <= Len(TASKS[tid].targets)
        /\ Finished(prober[tid][i])
        /\ TASKS' = TASKS
        /\ IF prober[tid][i].pc = "raised"
           THEN worker' = [worker EXCEPT ![tid].i = Len(TASKS[tid].targets) + 1]
           ELSE worker' = [worker EXCEPT ![tid].i = i + 1]
        /\ UNCHANGED <<request, reply, prober, queue, files, reader, fn>>

\* lines 182-186: f.result() of the next future blocks until that prober is over;
\* a prober that raised re-raises here, and the first of two log lines is written
WorkerResult(tid) ==
    LET i == worker[tid].i
    IN  /\ worker[tid].pc = "l184"
        /\ i <= Len(TASKS[tid].targets)
        /\ Finished(prober[tid][i])
        /\ IF prober[tid][i].pc = "raised"
           THEN /\ TASKS' = [TASKS EXCEPT ![tid] = log_line(@, Msg("thread_exc", <<>>, 0))]
                /\ worker' = [worker EXCEPT ![tid].pc = "l187"]
           ELSE /\ TASKS' = TASKS
                /\ worker' = [worker EXCEPT ![tid].i = i + 1]
        /\ UNCHANGED <<request, reply, prober, queue, files, reader, fn>>

\* line 187: the traceback
WorkerTraceback(tid) ==
    /\ worker[tid].pc = "l187"
    /\ TASKS' = [TASKS EXCEPT ![tid] = log_line(@, Msg("traceback", <<>>, 0))]
    /\ worker' = [worker EXCEPT ![tid].pc = "l184", ![tid].i = @ + 1]
    /\ UNCHANGED <<request, reply, prober, queue, files, reader, fn>>

\* WorkerFinally as a plain statement after the loop, reached only when every
\* target was counted as finished (no finally clause)
WorkerFinally_WaitsForAll(tid) ==
    /\ worker[tid].pc = "l184"
    /\ worker[tid].i > Len(TASKS[tid].targets)
    /\ TASKS[tid].finished_targets = TASKS[tid].total_targets
    /\ TASKS' = [TASKS EXCEPT ![tid] = log_line(@, Msg("all_done", <<>>, 0))]
    /\ worker' = [worker EXCEPT ![tid].pc = "l190"]
    /\ UNCHANGED <<request, reply, prober, queue, files, reader, fn>>

\* WorkerFinally that sets the done flag where the completion message belongs
WorkerFinally_DoneFirst(tid) ==
    /\ worker[tid].pc = "l184"
    /\ worker[tid].i > Len(TASKS[tid].targets)
    /\ queue[tid] = <<>>
    /\ Running(tid) = 0
    /\ TASKS' = [TASKS EXCEPT ![tid] = MarkDone(@)]
    /\ worker' = [worker EXCEPT ![tid].pc = "l190"]
    /\ UNCHANGED <<request, reply, prober, queue, files, reader, fn>>

\* lines 174, 188-189: leaving the with block waits for the pool's threads
\* (shutdown(wait=True)); then the finally clause logs the completion message
WorkerFinally(tid) ==
    /\ worker[tid].pc = "l184"
    /\ worker[tid].i > Len(TASKS[tid].targets)
    /\ queue[tid] = <<>>
    /\ Running(tid) = 0
    /\ TASKS' = [TASKS EXCEPT ![tid] = log_line(@, Msg("all_done", <<>>, 0))]
    /\ worker' = [worker EXCEPT ![tid].pc = "l190"]
    /\ UNCHANGED <<request, reply, prober, queue, files, reader, fn>>

\* lines 190-191
WorkerMarkDone(tid) ==
    /\ worker[tid].pc = "l190"
    /\ TASKS' = [TASKS EXCEPT ![tid] = MarkDone(@)]
    /\ worker' = [worker EXCEPT ![tid].pc = "exit"]
    /\ UNCHANGED <<request, reply, prober, queue, files, reader, fn>>

(***************************************************************************)
(* The pool (ThreadPoolExecutor(max_workers=P)) and scan_single_target.    *)
(***************************************************************************)
BaseUrl(tid, i) == normalize_base_url(TASKS[tid].targets[i].name)

FullUrl(tid, i) == urljoin(BaseUrl(tid, i), TASKS[tid].paths[prober[tid][i].k])

\* Advance that steps over the path that follows
Advance_Skips(p, paths) ==
    IF p.k + 1 < Len(paths)
    THEN [p EXCEPT !.pc = "l110", !.k = p.k + 2, !.url = <<>>]
    ELSE [p EXCEPT !.pc = "l148", !.url = <<>>]

\* The prober's next position after the path at position k: the next path, or
\* line 148 after the last one.
Advance(p, paths) ==
    IF p.k < Len(paths)
    THEN [p EXCEPT !.pc = "l110", !.k = p.k + 1, !.url = <<>>]
    ELSE [p EXCEPT !.pc = "l148", !.url = <<>>]

\* AfterFailure that gives the target up: the loop is left for line 148
AfterFailure_Aborts(p, paths) == [p EXCEPT !.pc = "l148", !.url = <<>>]

\* `continue` at line 120 and the end of the except clause at line 144: the loop
\* goes on with the next path
AfterFailure(p, paths) == Advance(p, paths)

\* A free pool thread takes the oldest queued call and runs lines 94-96: an empty
\* base URL returns at once.
PoolStart(tid) ==
    /\ queue[tid] # <<>>
    /\ Running(tid) < worker[tid].P
    /\ \E i \in {Head(queue[tid])} : \E base_url \in {BaseUrl(tid, i)} :
          prober' = [prober EXCEPT ![tid][i].pc =
                        IF base_url = <<>> THEN "returned" ELSE "l98"]
    /\ queue' = [queue EXCEPT ![tid] = Tail(@)]
    /\ UNCHANGED <<request, TASKS, reply, worker, files, reader, fn>>

\* ProberScanning without the status update of line 98
ProberScanning_Skip(tid, i) ==
    /\ prober[tid][i].pc = "l98"
    /\ prober' = [prober EXCEPT ![tid][i].pc = "l100"]
    /\ UNCHANGED <<request, TASKS, reply, worker, queue, files, reader, fn>>

\* line 98
ProberScanning(tid, i) ==
    /\ prober[tid][i].pc = "l98"
    /\ TASKS' = [TASKS EXCEPT ![tid] =
                    update_target_status(@, i, [status |-> "scanning"])]
    /\ prober' = [prober EXCEPT ![tid][i].pc = "l100"]
    /\ UNCHANGED <<request, reply, worker, queue, files, reader, fn>>

\* lines 100-107
ProberBegin(tid, i) ==
    /\ prober[tid][i].pc = "l100"
    /\ \E base_url \in {BaseUrl(tid, i)} :
          TASKS' = [TASKS EXCEPT ![tid] = log_line(@, Msg("begin", base_url, 0))]
    /\ prober' = [prober EXCEPT ![tid][i] =
                     IF TASKS[tid].paths # <<>>
                     THEN [@ EXCEPT !.pc = "l110", !.k = 1]
                     ELSE [@ EXCEPT !.pc = "l148"]]
    /\ UNCHANGED <<request, reply, worker, queue, files, reader, fn>>

\* lines 108-110
ProberTesting(tid, i) ==
    /\ prober[tid][i].pc = "l110"
    /\ \E full_url \in {FullUrl(tid, i)} :
          TASKS' = [TASKS EXCEPT ![tid] = log_line(@, Msg("testing", full_url, 0))]
    /\ prober' = [prober EXCEPT ![tid][i].pc = "l111"]
    /\ UNCHANGED <<request, reply, worker, queue, files, reader, fn>>

\* lines 111-137 and 145-146: the request, its headers, the classification and the
\* log line of the outcome.  int() of an unparseable Content-Length raises
\* ValueError, which nothing in scan_single_target catches.
ProberRequest(tid, i) ==
    /\ prober[tid][i].pc = "l111"
    /\ \E full_url \in {FullUrl(tid, i)} : \E resp \in ServerAnswers(full_url) :
       \E cl \in {ContentLengthOf(resp.cl)} :
       \E class \in {Classify(resp.code, resp.ct, cl.val, resp.url)} :
          LET p     == prober[tid][i]
              paths == TASKS[tid].paths
          IN  IF resp.err
              THEN /\ TASKS' = [TASKS EXCEPT ![tid] = log_line(@, Msg("request_error", <<>>, 0))]
                   /\ prober' = [prober EXCEPT ![tid][i] = AfterFailure(p, paths)]
              ELSE IF ~cl.ok
              THEN /\ TASKS' = TASKS
                   /\ prober' = [prober EXCEPT ![tid][i].pc = "raised"]
              ELSE IF class = "html"
              THEN /\ TASKS' = [TASKS EXCEPT ![tid] = log_line(@, Msg("html_skip", resp.url, 0))]
                   /\ prober' = [prober EXCEPT ![tid][i] = Advance(p, paths)]
              ELSE IF class = "match"
              THEN /\ TASKS' = [TASKS EXCEPT ![tid] = log_line(@, Msg("found", resp.url, 0))]
                   /\ prober' = [prober EXCEPT ![tid][i].pc = "l138", ![tid][i].url = resp.url]
              ELSE /\ TASKS' = [TASKS EXCEPT ![tid] = log_line(@, Msg("invalid", resp.url, resp.code))]
                   /\ prober' = [prober EXCEPT ![tid][i] = Advance(p, paths)]
    /\ UNCHANGED <<request, reply, worker, queue, files, reader, fn>>

\* line 138
ProberSaveTo(tid, i) ==
    /\ prober[tid][i].pc = "l138"
    /\ \E base_url \in {BaseUrl(tid, i)} : \E path \in {save_path(base_url, prober[tid][i].url)} :
          TASKS' = [TASKS EXCEPT ![tid] = log_line(@, Msg("save_to", path, 0))]
    /\ prober' = [prober EXCEPT ![tid][i].pc = "l140"]
    /\ UNCHANGED <<request, reply, worker, queue, files, reader, fn>>

\* One more body written to path by target i of task tid.
Written(fs, tid, i, path) ==
    LET key == [task |-> tid, t |-> i, path |-> path]
    IN  IF key \in DOMAIN fs THEN [fs EXCEPT ![key] = @ + 1] ELSE (key :> 1) @@ fs

\* ProberSave with found_count += 1 ahead of the write, so that a failed write
\* counts too
ProberSave_CountsFirst(tid, i) ==
    /\ prober[tid][i].pc = "l140"
    /\ \E base_url \in {BaseUrl(tid, i)} : \E path \in {save_path(base_url, prober[tid][i].url)} :
       \E saved \in BOOLEAN :
          IF saved
          THEN /\ files' = Written(files, tid, i, path)
               /\ prober' = [prober EXCEPT ![tid][i].pc = "l142",
                                           ![tid][i].found_count = @ + 1]
               /\ TASKS' = TASKS
          ELSE /\ files' = files
               /\ TASKS' = [TASKS EXCEPT ![tid] = log_line(@, Msg("save_failed", <<>>, 0))]
               /\ prober' = [prober EXCEPT ![tid][i] =
                                [Advance(@, TASKS[tid].paths) EXCEPT !.found_count = @ + 1]]
    /\ UNCHANGED <<request, reply, worker, queue, reader, fn>>

\* lines 139-141 and 143-144: save_response_content either writes the body, and
\* found_count goes up, or raises, and the failure is logged
ProberSave(tid, i) ==
    /\ prober[tid][i].pc = "l140"
    /\ \E base_url \in {BaseUrl(tid, i)} : \E path \in {save_path(base_url, prober[tid][i].url)} :
       \E saved \in BOOLEAN :
          IF saved
          THEN /\ files' = Written(files, tid, i, path)
               /\ prober' = [prober EXCEPT ![tid][i].pc = "l142",
                                           ![tid][i].found_count = @ + 1]
               /\ TASKS' = TASKS
          ELSE /\ files' = files
               /\ TASKS' = [TASKS EXCEPT ![tid] = log_line(@, Msg("save_failed", <<>>, 0))]
               /\ prober' = [prober EXCEPT ![tid][i] = AfterFailure(@, TASKS[tid].paths)]
    /\ UNCHANGED <<request, reply, worker, queue, reader, fn>>

\* line 142
ProberFound(tid, i) ==
    /\ prober[tid][i].pc = "l142"
    /\ TASKS' = [TASKS EXCEPT ![tid] =
                    update_target_status(@, i, [found |-> prober[tid][i].found_count])]
    /\ prober' = [prober EXCEPT ![tid][i] = Advance(@, TASKS[tid].paths)]
    /\ UNCHANGED <<request, reply, worker, queue, files, reader, fn>>

\* ProberDone without the status update of line 148
ProberDone_SkipsStatus(tid, i) ==
    /\ prober[tid][i].pc = "l148"
    /\ prober' = [prober EXCEPT ![tid][i].pc = "l150"]
    /\ UNCHANGED <<request, TASKS, reply, worker, queue, files, reader, fn>>

\* line 148
ProberDone(tid, i) ==
    /\ prober[tid][i].pc = "l148"
    /\ TASKS' = [TASKS EXCEPT ![tid] = update_target_status(@, i, [status |-> "done"])]
    /\ prober' = [prober EXCEPT ![tid][i].pc = "l150"]
    /\ UNCHANGED <<request, reply, worker, queue, files, reader, fn>>

\* ProberFinished without the lock: the increment writes back a value of
\* finished_targets that was read at some earlier moment
ProberFinished_Unlocked(tid, i) ==
    /\ prober[tid][i].pc = "l150"
    /\ \E stale \in 0..TASKS[tid].finished_targets :
          /\ TASKS' = [TASKS EXCEPT ![tid].finished_targets = stale + 1]
          /\ prober' = [prober EXCEPT ![tid][i].pc = "l153", ![tid][i].n = stale + 1]
    /\ UNCHANGED <<request, reply, worker, queue, files, reader, fn>>

\* lines 149-152: the increment and the two reads, under one hold of the lock
ProberFinished(tid, i) ==
    /\ prober[tid][i].pc = "l150"
    /\ TASKS' = [TASKS EXCEPT ![tid] = IncrementFinished(@)]
    /\ prober' = [prober EXCEPT ![tid][i].pc = "l153",
                                ![tid][i].n = IncrementFinished(TASKS[tid]).finished_targets]
    /\ UNCHANGED <<request, reply, worker, queue, files, reader, fn>>

\* line 153, and the return
ProberMilestone(tid, i) ==
    /\ prober[tid][i].pc = "l153"
    /\ \E base_url \in {BaseUrl(tid, i)} :
          TASKS' = [TASKS EXCEPT ![tid] =
                       log_line(@, Msg("target_done", base_url, prober[tid][i].n))]
    /\ prober' = [prober EXCEPT ![tid][i].pc = "returned"]
    /\ UNCHANGED <<request, reply, worker, queue, files, reader, fn>>

(***************************************************************************)
(* progress: the handler copies done and the two counters while it holds   *)
(* TASKS_LOCK and puts the task's own logs list and targets list (not      *)
(* copies) into data; jsonify(data) runs after the lock is released and    *)
(* serialises what those lists hold by then.                               *)
(***************************************************************************)
MaxQueries == 2

NoData ==
    [task_id |-> 0, done |-> FALSE, total_targets |-> 0, finished_targets |-> 0,
     logs_locked |-> <<>>, targets_locked |-> <<>>]

NoResult ==
    [code |-> 0, done |-> FALSE, logs |-> <<>>, targets |-> <<>>,
     total_targets |-> 0, finished_targets |-> 0]

\* data: what the handler holds between the lock and jsonify (logs_locked and
\* targets_locked record what the two lists held when the lock was released);
\* result: the last answer the client got; prev: the answer before it.
IdleReader == [pc |-> "idle", q |-> 0, data |-> NoData, result |-> NoResult, prev |-> NoResult]

\* The task ids a client knows: those start_scan has answered with.
KnownIds == {reply[r].task_id : r \in {x \in Reqs : reply[x].code = 200}}

\* lines 303-315, for a known id or an id no task has (0)
progress_lookup ==
    /\ reader.pc = "idle"
    /\ reader.q < MaxQueries
    /\ \E task_id \in KnownIds \cup {0} :
          IF task_id \notin DOMAIN TASKS
          THEN reader' = [reader EXCEPT !.q = @ + 1, !.prev = reader.result,
                                        !.result = [NoResult EXCEPT !.code = 404]]
          ELSE LET task == TASKS[task_id]
               IN  reader' = [reader EXCEPT
                                 !.pc = "l317",
                                 !.data = [task_id          |-> task_id,
                                           done             |-> task.done,
                                           total_targets    |-> task.total_targets,
                                           finished_targets |-> task.finished_targets,
                                           logs_locked      |-> task.logs,
                                           targets_locked   |-> task.targets]]
    /\ UNCHANGED <<request, TASKS, reply, worker, prober, queue, files, fn>>

\* line 317: jsonify(data) reads data["logs"] and data["targets"], which are the
\* task's lists themselves
progress_jsonify ==
    /\ reader.pc = "l317"
    /\ LET data == reader.data
           task == TASKS[data.task_id]
       IN  reader' = [reader EXCEPT
                         !.pc = "idle",
                         !.q = @ + 1,
                         !.prev = reader.result,
                         !.result = [code             |-> 200,
                                     done             |-> data.done,
                                     logs             |-> task.logs,
                                     targets          |-> task.targets,
                                     total_targets    |-> data.total_targets,
                                     finished_targets |-> data.finished_targets]]
    /\ UNCHANGED <<request, TASKS, reply, worker, prober, queue, files, fn>>

(***************************************************************************)
(* The specification of the engine: one create-task request, its           *)
(* orchestrator and its probers.                                           *)
(***************************************************************************)
NoFn == [op |-> "none", arg |-> <<>>, applied |-> FALSE, out |-> 0]

InitEngine(requests) ==
    /\ request \in [Reqs -> requests]
    /\ TASKS = <<>>
    /\ reply = [r \in Reqs |-> NoReply]
    /\ worker = [r \in Reqs |-> IdleWorker]
    /\ prober = [r \in Reqs |-> <<>>]
    /\ queue = [r \in Reqs |-> <<>>]
    /\ files = <<>>
    /\ reader = IdleReader
    /\ fn = NoFn

Init == InitEngine(Requests)

Next ==
    \/ \E r \in Reqs : start_scan(r)
    \/ \E tid \in DOMAIN TASKS : WorkerBegin(tid)
    \/ \E tid \in DOMAIN TASKS : WorkerLogDir(tid)
    \/ \E tid \in DOMAIN TASKS : WorkerSubmit(tid)
    \/ \E tid \in DOMAIN TASKS : WorkerSubmitted(tid)
    \/ \E tid \in DOMAIN TASKS : WorkerResult(tid)
    \/ \E tid \in DOMAIN TASKS : WorkerTraceback(tid)
    \/ \E tid \in DOMAIN TASKS : WorkerFinally(tid)
    \/ \E tid \in DOMAIN TASKS : WorkerMarkDone(tid)
    \/ \E tid \in DOMAIN TASKS : PoolStart(tid)
    \/ \E tid \in DOMAIN TASKS : \E i \in DOMAIN prober[tid] : ProberScanning(tid, i)
    \/ \E tid \in DOMAIN TASKS : \E i \in DOMAIN prober[tid] : ProberBegin(tid, i)
    \/ \E tid \in DOMAIN TASKS : \E i \in DOMAIN prober[tid] : ProberTesting(tid, i)
    \/ \E tid \in DOMAIN TASKS : \E i \in DOMAIN prober[tid] : ProberRequest(tid, i)
    \/ \E tid \in DOMAIN TASKS : \E i \in DOMAIN prober[tid] : ProberSaveTo(tid, i)
    \/ \E tid \in DOMAIN TASKS : \E i \in DOMAIN prober[tid] : ProberSave(tid, i)
    \/ \E tid \in DOMAIN TASKS : \E i \in DOMAIN prober[tid] : ProberFound(tid, i)
    \/ \E tid \in DOMAIN TASKS : \E i \in DOMAIN prober[tid] : ProberDone(tid, i)
    \/ \E tid \in DOMAIN TASKS : \E i \in DOMAIN prober[tid] : ProberFinished(tid, i)
    \/ \E tid \in DOMAIN TASKS : \E i \in DOMAIN prober[tid] : ProberMilestone(tid, i)

Spec == Init /\ [][Next]_vars

\* The threads of the engine, for fairness: the orchestrator of a task, the pool's
\* dispatch, and the prober of each target.
WorkerThread(tid) ==
    /\ tid \in DOMAIN TASKS
    /\ \/ WorkerBegin(tid) \/ WorkerLogDir(tid) \/ WorkerSubmit(tid) \/ WorkerSubmitted(tid)
       \/ WorkerResult(tid) \/ WorkerTraceback(tid) \/ WorkerFinally(tid) \/ WorkerMarkDone(tid)

PoolThread(tid) == tid \in DOMAIN TASKS /\ PoolStart(tid)

ProberThread(tid, i) ==
    /\ tid \in DOMAIN TASKS
    /\ i \in DOMAIN prober[tid]
    /\ \/ ProberScanning(tid, i) \/ ProberBegin(tid, i) \/ ProberTesting(tid, i)
       \/ ProberRequest(tid, i) \/ ProberSaveTo(tid, i) \/ ProberSave(tid, i)
       \/ ProberFound(tid, i) \/ ProberDone(tid, i) \/ ProberFinished(tid, i)
       \/ ProberMilestone(tid, i)

\* The requests of the engine under fair scheduling: two targets on two pool
\* threads (the host c answers 404 only), and a request that is refused.
FairRequests ==
    { Req(<<T_a, T_c>>, NoFile, <<P_xdb>>, NoFile, W_2),
      Req(<<T_blank>>, NoFile, <<P_xdb>>, NoFile, None) }

InitFair == InitEngine(FairRequests)

TargetIndexes == UNION {1..Len(ResolveTargets(req)) : req \in FairRequests}

\* Every started thread keeps being scheduled, and every request and every file
\* write returns.
Fairness ==
    /\ \A tid \in Reqs : WF_vars(WorkerThread(tid))
    /\ \A tid \in Reqs : WF_vars(PoolThread(tid))
    /\ \A tid \in Reqs : \A i \in TargetIndexes : WF_vars(ProberThread(tid, i))

FairSpec == InitFair /\ [][Next]_vars /\ Fairness

(***************************************************************************)
(* The engine on a target list that names one host twice, in two           *)
(* spellings that list(dict.fromkeys(...)) keeps apart.                    *)
(***************************************************************************)
T_a_slash == <<"a", "/">>

AliasRequests ==
    { Req(<<T_a, T_a_slash>>, NoFile, <<P_xdb>>, NoFile, W_2),
      Req(<<T_blank>>, NoFile, <<P_xdb>>, NoFile, None) }

InitAlias == InitEngine(AliasRequests)

SpecAlias == InitAlias /\ [][Next]_vars

(***************************************************************************)
(* The engine with a polling client, on single-target requests.            *)
(***************************************************************************)
PollRequests ==
    { Req(<<T_a>>, NoFile, <<P_xdb>>, NoFile, None),
      Req(<<T_blank>>, NoFile, <<P_xdb>>, NoFile, None) }

InitPoll == InitEngine(PollRequests)

NextPoll ==
    \/ Next
    \/ progress_lookup
    \/ progress_jsonify

SpecPoll == InitPoll /\ [][NextPoll]_vars

(***************************************************************************)
(* The pure functions on their own: the classification of a response, the  *)
(* resolution of the worker count and the normalisation of a target,       *)
(* applied to every input of a bounded set.                                *)
(***************************************************************************)
MaxThreadsLen == 3

ThreadsAlphabet == {"0", "1", "5", "9", "-", " ", "x"}

ThreadsInputs ==
    {None} \cup UNION {[1..n -> ThreadsAlphabet] : n \in 0..MaxThreadsLen}

U_backup_zip == <<"h", "t", "t", "p", ":", "/", "/", "x", "/", "b", "a", "c", "k", "u", "p", ".", "z", "i", "p">>

U_BACKUP_ZIP == <<"h", "t", "t", "p", ":", "/", "/", "x", "/", "B", "A", "C", "K", "U", "P", ".", "Z", "I", "P">>

U_index == <<"h", "t", "t", "p", ":", "/", "/", "x", "/", "i", "n", "d", "e", "x", ".", "h", "t", "m", "l">>

U_targz == <<"h", "t", "t", "p", ":", "/", "/", "x", "/", "a", ".", "t", "a", "r", ".", "g", "z">>

U_zip_slash == <<"h", "t", "t", "p", ":", "/", "/", "x", "/", "b", "a", "c", "k", "u", "p", ".", "z", "i", "p", "/">>

U_zip_query == <<"h", "t", "t", "p", ":", "/", "/", "x", "/", "b", "a", "c", "k", "u", "p", ".", "z", "i", "p", "?", "v", "=", "1">>

CT_HTML_upper == <<"T", "e", "x", "t", "/", "H", "T", "M", "L">>

ClassifyInputs ==
    [code : {200, 206, 204, 301, 404, 500},
     ct   : {None, <<>>, CT_html, CT_HTML_upper, CT_octet},
     cl   : {0, 1000, HtmlSizeLimit - 1, HtmlSizeLimit, 3 * 1024 * 1024},
     url  : {U_backup_zip, U_BACKUP_ZIP, U_index, U_targz, U_zip_slash, U_zip_query}]

MaxHostLen == 3

HostAlphabet == {"a", "/", " ", ":"}

\* The raw targets: every string over the alphabet up to the bound, and two that
\* carry a scheme already.
HostInputs ==
    UNION {[1..n -> HostAlphabet] : n \in 0..MaxHostLen}
        \cup {HTTP \o T_a, HTTPS \o T_a \o SLASH}

InitFn ==
    /\ request = [r \in Reqs |-> Req(<<>>, NoFile, <<>>, NoFile, None)]
    /\ TASKS = <<>>
    /\ reply = [r \in Reqs |-> NoReply]
    /\ worker = [r \in Reqs |-> IdleWorker]
    /\ prober = [r \in Reqs |-> <<>>]
    /\ queue = [r \in Reqs |-> <<>>]
    /\ files = <<>>
    /\ reader = IdleReader
    /\ \/ \E x \in ClassifyInputs : fn = [op |-> "classify", arg |-> x, applied |-> FALSE, out |-> 0]
       \/ \E x \in ThreadsInputs : fn = [op |-> "workers", arg |-> x, applied |-> FALSE, out |-> 0]
       \/ \E x \in HostInputs : fn = [op |-> "normalize", arg |-> x, applied |-> FALSE, out |-> 0]

FnClassify ==
    /\ fn.op = "classify"
    /\ ~fn.applied
    /\ fn' = [fn EXCEPT !.applied = TRUE,
                        !.out = Classify(fn.arg.code, fn.arg.ct, fn.arg.cl, fn.arg.url)]
    /\ UNCHANGED <<request, TASKS, reply, worker, prober, queue, files, reader>>

FnWorkers ==
    /\ fn.op = "workers"
    /\ ~fn.applied
    /\ fn' = [fn EXCEPT !.applied = TRUE, !.out = ResolveWorkers(fn.arg)]
    /\ UNCHANGED <<request, TASKS, reply, worker, prober, queue, files, reader>>

FnNormalize ==
    /\ fn.op = "normalize"
    /\ ~fn.applied
    /\ fn' = [fn EXCEPT !.applied = TRUE, !.out = normalize_base_url(fn.arg)]
    /\ UNCHANGED <<request, TASKS, reply, worker, prober, queue, files, reader>>

NextFn ==
    \/ FnClassify
    \/ FnWorkers
    \/ FnNormalize

SpecFn == InitFn /\ [][NextFn]_vars

(***************************************************************************)
(* The properties.                                                         *)
(***************************************************************************)
Created(r) == reply[r].code = 200

TaskDone(tid) == tid \in DOMAIN TASKS /\ TASKS[tid].done

StatusCount(task, status) ==
    Cardinality({i \in DOMAIN task.targets : task.targets[i].status = status})

HasLog(task, kind) == \E j \in DOMAIN task.logs : task.logs[j].k = kind

IsPrefix(a, b) == Len(a) <= Len(b) /\ SubSeq(b, 1, Len(a)) = a

RECURSIVE SumOf(_, _)
SumOf(f, keys) ==
    IF keys = {} THEN 0
    ELSE LET key == CHOOSE x \in keys : TRUE
         IN  f[key] + SumOf(f, keys \ {key})

\* The number of bodies target i of task tid has written to the directory fs.
Persisted(fs, tid, i) == SumOf(fs, {key \in DOMAIN fs : key.task = tid /\ key.t = i})

\* C1: every task that was created (start_scan answered its caller with the task's
\* id) eventually has done = TRUE, whatever the interleaving of its probers and
\* also when probers raise, given that every started thread keeps being scheduled
\* and every request and write returns.
C1_EventuallyDone ==
    \A r \in Reqs : Created(r) ~> TaskDone(reply[r].task_id)

\* C1, its case: a created task is done although one of its probers raised.
C1_Witness ==
    \E r \in Reqs :
        /\ Created(r)
        /\ TaskDone(reply[r].task_id)
        /\ \E i \in DOMAIN prober[r] : prober[r][i].pc = "raised"

\* C2: finished_targets <= total_targets always, and done = TRUE implies
\* finished_targets = total_targets, also in runs in which a prober raised.
C2_DoneImpliesAllFinished ==
    \A tid \in DOMAIN TASKS :
        /\ TASKS[tid].finished_targets <= TASKS[tid].total_targets
        /\ TASKS[tid].done => TASKS[tid].finished_targets = TASKS[tid].total_targets

\* C3: whenever done is TRUE, finished_targets is the number of targets whose
\* status is "done".
C3_FinishedCountsDone ==
    \A tid \in DOMAIN TASKS :
        TASKS[tid].done => TASKS[tid].finished_targets = StatusCount(TASKS[tid], "done")

\* C3, its case: a done task with a target that is done and a target that is not
\* (its prober raised).
C3_Witness ==
    \E tid \in DOMAIN TASKS :
        /\ TASKS[tid].done
        /\ StatusCount(TASKS[tid], "done") >= 1
        /\ StatusCount(TASKS[tid], "scanning") >= 1

C4_Step(a, b) ==
    \/ a = b
    \/ a = "pending" /\ b = "scanning"
    \/ a = "scanning" /\ b = "done"

\* C4: a target's status starts as "pending" and every step leaves it as it is or
\* moves it pending -> scanning or scanning -> done.
C4_StatusTransitions ==
    [][\A tid \in DOMAIN (TASKS') :
          IF tid \in DOMAIN TASKS
          THEN \A i \in DOMAIN TASKS[tid].targets :
                  C4_Step(TASKS[tid].targets[i].status, TASKS'[tid].targets[i].status)
          ELSE \A i \in DOMAIN TASKS'[tid].targets :
                  TASKS'[tid].targets[i].status = "pending"]_vars

\* C4, its case: a target went all the way to "done" while another is "scanning".
C4_Witness ==
    \E tid \in DOMAIN TASKS :
        /\ StatusCount(TASKS[tid], "done") >= 1
        /\ StatusCount(TASKS[tid], "scanning") >= 1

\* C5: with N targets and P = max(1, min(N, requested worker count)), at most P
\* probers execute at any instant, and a target no pool thread has picked up yet
\* is still "pending".
C5_AtMostPoolSize ==
    \A tid \in DOMAIN TASKS :
        LET N == TASKS[tid].total_targets
            m == Min(N, TASKS[tid].max_workers)
            P == IF m < 1 THEN 1 ELSE m
        IN  /\ Running(tid) <= P
            /\ \A i \in DOMAIN prober[tid] :
                  prober[tid][i].pc \in {"new", "queued"}
                      => TASKS[tid].targets[i].status = "pending"

\* C5, its case: three targets on two pool threads, two probers executing and the
\* third waiting in the queue.
C5_Witness ==
    \E tid \in DOMAIN TASKS :
        /\ TASKS[tid].total_targets = 3
        /\ TASKS[tid].max_workers = 2
        /\ Running(tid) = 2
        /\ queue[tid] # <<>>

\* C6: the answer of a progress query holds, in all its fields, one state of the
\* task that existed while the handler held the lock: its logs and targets are
\* those of the moment the lock was released.
C6_SnapshotConsistent ==
    (reader.pc = "idle" /\ reader.result.code = 200)
        => /\ reader.result.logs = reader.data.logs_locked
           /\ reader.result.targets = reader.data.targets_locked

\* C7: found never decreases, a step raises it by at most one, it never exceeds
\* the number of bodies written for the target, and once the target's status is
\* "done" it equals that number.
C7_FoundCount ==
    [][\A tid \in DOMAIN TASKS : \A i \in DOMAIN TASKS[tid].targets :
          LET before == TASKS[tid].targets[i].found
              after  == TASKS'[tid].targets[i].found
          IN  /\ after \in {before, before + 1}
              /\ after <= Persisted(files', tid, i)
              /\ TASKS'[tid].targets[i].status = "done"
                    => after = Persisted(files', tid, i)]_vars

\* C7, its case: a target is done with found = 1 after one write failed and one
\* succeeded.
C7_Witness ==
    \E tid \in DOMAIN TASKS : \E i \in DOMAIN TASKS[tid].targets :
        /\ TASKS[tid].targets[i].status = "done"
        /\ TASKS[tid].targets[i].found = 1
        /\ Persisted(files, tid, i) = 1
        /\ HasLog(TASKS[tid], "save_failed")

\* C8: the log an earlier progress query returned is a prefix of the log a later
\* query of the same task returns.
C8_LogPrefix ==
    (reader.prev.code = 200 /\ reader.result.code = 200)
        => IsPrefix(reader.prev.logs, reader.result.logs)

\* C8, its case: two answers of one task, the later with a longer log.
C8_Witness ==
    /\ reader.prev.code = 200
    /\ reader.result.code = 200
    /\ reader.prev.logs # <<>>
    /\ Len(reader.prev.logs) < Len(reader.result.logs)

\* The claim's condition for a match.  The content type is compared without
\* regard to case.
C9_Match(x) ==
    /\ x.code \in {200, 206}
    /\ \E s \in BACKUP_SUFFIXES : EndsWith(Lower(x.url), s)
    /\ ~(/\ Contains(Lower(IF x.ct = None THEN <<>> ELSE x.ct), TEXT_HTML)
         /\ x.cl < 2 * 1024 * 1024)

\* C9: the classifier answers match exactly for status 200 or 206, a lower-cased
\* final URL that ends with a backup suffix, and not (text/html and length below
\* 2 MiB); no other status matches; (200, text/html; charset=utf-8, 1000,
\* http://x/backup.zip) is no match and the same with length 3 MiB is a match.
C9_Classifier ==
    (fn.op = "classify" /\ fn.applied)
        => /\ (fn.out = "match") = C9_Match(fn.arg)
           /\ fn.arg.code \notin {200, 206} => fn.out # "match"
           /\ fn.arg = [code |-> 200, ct |-> CT_html, cl |-> 1000, url |-> U_backup_zip]
                 => fn.out # "match"
           /\ fn.arg = [code |-> 200, ct |-> CT_html, cl |-> 3 * 1024 * 1024, url |-> U_backup_zip]
                 => fn.out = "match"

\* C9, its case: an HTML response of 3 MiB at a backup URL was classified a match.
C9_Witness ==
    /\ fn.op = "classify"
    /\ fn.applied
    /\ fn.arg = [code |-> 200, ct |-> CT_html, cl |-> 3 * 1024 * 1024, url |-> U_backup_zip]
    /\ fn.out = "match"

C10_NonNumeric(raw) == raw # None /\ ~IntParse(raw).ok

C10_NonPositive(raw) == raw # None /\ IntParse(raw).ok /\ IntParse(raw).val <= 0

\* C10 as claimed: a request of 0, of a non-positive integer or of a non-numeric
\* string resolves to 5, and every resolved count lies in 1..50.
C10_Original ==
    (fn.op = "workers" /\ fn.applied)
        => /\ (C10_NonNumeric(fn.arg) \/ C10_NonPositive(fn.arg)) => fn.out = 5
           /\ fn.out \in 1..50

\* C10 as amended: a non-numeric string resolves to 5, a request of 0 or of a
\* negative integer resolves to 1, and every resolved count lies in 1..50.
C10_Amended ==
    (fn.op = "workers" /\ fn.applied)
        => /\ C10_NonNumeric(fn.arg) => fn.out = 5
           /\ C10_NonPositive(fn.arg) => fn.out = 1
           /\ fn.out \in 1..50

\* C10, its case: the request "0" was resolved, to 1.
C10_Witness ==
    /\ fn.op = "workers"
    /\ fn.applied
    /\ fn.arg = <<"0">>
    /\ fn.out = 1

C11_NoScheme(url) == ~StartsWith(url, HTTP) /\ ~StartsWith(url, HTTPS)

\* C11: for a raw target that is non-empty after trimming and has no scheme,
\* normalize_base_url returns a string that starts with "http://" and ends with
\* exactly one "/" (also when the input ends with one or several "/"); for an
\* empty or whitespace-only input it returns the empty string.
C11_ExactlyOneSlash ==
    (fn.op = "normalize" /\ fn.applied)
        => LET url == Strip(fn.arg)
           IN  /\ url = <<>> => fn.out = <<>>
               /\ (url # <<>> /\ C11_NoScheme(url))
                     => /\ StartsWith(fn.out, HTTP)
                        /\ EndsWith(fn.out, SLASH)
                        /\ ~EndsWith(fn.out, SLASH \o SLASH)

\* C12: whenever start_scan has reported an error to its caller (400 for an empty
\* target list or an unreadable upload, 500 for a failure in the task's set-up,
\* the start of the orchestrator thread included), the registry holds no task of
\* that request.
C12_NoTaskAfterError ==
    \A r \in Reqs : reply[r].code \in {400, 500} => r \notin DOMAIN TASKS

LogCount(task, kind) ==
    Cardinality({j \in DOMAIN task.logs : task.logs[j].k = kind})

Raised(tid) == {i \in DOMAIN prober[tid] : prober[tid][i].pc = "raised"}

\* C13: a failure raised inside the prober of one target is caught where the
\* orchestrator collects that prober's result and is written to the log (one
\* exception line and one traceback line per failed prober), the orchestrator
\* runs to its end, and every other target of the task was probed and has status
\* "done" when the task is done.
C13_FailureIsolated ==
    \A tid \in DOMAIN TASKS :
        /\ LogCount(TASKS[tid], "thread_exc") <= Cardinality(Raised(tid))
        /\ TASKS[tid].done =>
              /\ worker[tid].pc = "exit"
              /\ LogCount(TASKS[tid], "thread_exc") = Cardinality(Raised(tid))
              /\ LogCount(TASKS[tid], "traceback") = Cardinality(Raised(tid))
              /\ \A i \in DOMAIN prober[tid] \ Raised(tid) :
                    /\ prober[tid][i].pc = "returned"
                    /\ TASKS[tid].targets[i].status = "done"

\* C13, its case: on a pool of one thread the prober of the first target raised,
\* the second target was probed after it and is "done", and the task is done.
C13_Witness ==
    \E tid \in DOMAIN TASKS :
        /\ TASKS[tid].done
        /\ TASKS[tid].max_workers = 1
        /\ prober[tid][1].pc = "raised"
        /\ TASKS[tid].targets[2].status = "done"
        /\ HasLog(TASKS[tid], "thread_exc")

\* C14: a response whose Content-Length is missing or is not a number is handled
\* with the length taken as zero and the prober carries on: no prober ends by an
\* exception, and a target whose prober has stopped has status "done".
C14_LengthDefaultsToZero ==
    \A tid \in DOMAIN TASKS : \A i \in DOMAIN prober[tid] :
        /\ prober[tid][i].pc # "raised"
        /\ Finished(prober[tid][i]) => TASKS[tid].targets[i].status = "done"

\* The "testing" lines of target i in the log of task tid, in log order.
TestingLines(tid, i) ==
    LET base_url == BaseUrl(tid, i)
        Mine(m)  == m.k = "testing" /\ StartsWith(m.u, base_url)
    IN  SelectSeq(TASKS[tid].logs, Mine)

C15_AllPathsTried ==
    \A tid \in DOMAIN TASKS : \A i \in DOMAIN TASKS[tid].targets :
        TASKS[tid].targets[i].status = "done"
            => Len(TestingLines(tid, i)) = Len(TASKS[tid].paths)

C15_FailureStep ==
    \A tid \in DOMAIN TASKS :
        (/\ Len(TASKS'[tid].logs) = Len(TASKS[tid].logs) + 1
         /\ TASKS'[tid].logs[Len(TASKS'[tid].logs)].k \in {"request_error", "save_failed"})
            => /\ \A i \in DOMAIN TASKS[tid].targets :
                     /\ TASKS'[tid].targets[i] = TASKS[tid].targets[i]
                     /\ prober'[tid][i].found_count = prober[tid][i].found_count
               /\ files' = files
               /\ \E i \in DOMAIN prober[tid] :
                     /\ prober[tid][i].pc \in {"l111", "l140"}
                     /\ prober'[tid][i] = Advance(prober[tid][i], TASKS[tid].paths)

\* C15: a transport error on a request, or a failure while a match is written,
\* is logged and leaves every found count and the written files as they were; the
\* prober goes on with the next path of the list, and a target is "done" only
\* after every path of the list was attempted.
C15_RecoverableFailure == [][C15_FailureStep]_vars /\ []C15_AllPathsTried

\* C15, its case: a target is "done" after a transport error on one path and a
\* failed write on another.
C15_Witness ==
    \E tid \in DOMAIN TASKS : \E i \in DOMAIN TASKS[tid].targets :
        /\ TASKS[tid].targets[i].status = "done"
        /\ Len(TASKS[tid].paths) >= 2
        /\ HasLog(TASKS[tid], "request_error")
        /\ HasLog(TASKS[tid], "save_failed")
        /\ TASKS[tid].targets[i].found = 0

\* The URLs target i of task tid has to request: one per position of the path
\* list, in list order, duplicates included.
ExpectedUrls(tid, i) ==
    [k \in 1..Len(TASKS[tid].paths) |->
        Msg("testing", urljoin(BaseUrl(tid, i), TASKS[tid].paths[k]), 0)]

\* C16: within one target every position of the path list is attempted exactly
\* once and in list order (a duplicate entry is attempted once per position):
\* the target's "testing" lines in the shared log are, in log order, the URLs of
\* the list up to the path the prober is at, and the whole list once the target
\* is "done", whatever lines of other targets lie between them.
C16_PathsInOrder ==
    \A tid \in DOMAIN TASKS : \A i \in DOMAIN TASKS[tid].targets :
        LET lines == TestingLines(tid, i)
            p     == prober[tid][i]
        IN  /\ IsPrefix(lines, ExpectedUrls(tid, i))
            /\ Len(lines) = (IF p.pc = "l110" THEN p.k - 1 ELSE p.k)
            /\ TASKS[tid].targets[i].status = "done" => lines = ExpectedUrls(tid, i)

\* C16, its case: a list that holds the same path twice was attempted twice by
\* each of two targets, both "done", and a "testing" line of the second target
\* lies between the two of the first.
C16_Witness ==
    \E tid \in DOMAIN TASKS :
        /\ Len(TASKS[tid].targets) = 2
        /\ Len(TASKS[tid].paths) = 2
        /\ TASKS[tid].paths[1] = TASKS[tid].paths[2]
        /\ \A i \in 1..2 : TASKS[tid].targets[i].status = "done"
        /\ \E x, y, z \in DOMAIN TASKS[tid].logs :
              /\ x < y /\ y < z
              /\ TASKS[tid].logs[x] = ExpectedUrls(tid, 1)[1]
              /\ TASKS[tid].logs[y] = ExpectedUrls(tid, 2)[1]
              /\ TASKS[tid].logs[z] = ExpectedUrls(tid, 1)[2]

\* The target indexes the orchestrator of task tid has submitted so far.
Submitted(tid) ==
    IF worker[tid].pc \in {"none", "l158", "l171"} THEN {}
    ELSE IF worker[tid].pc = "l176" THEN 1..(worker[tid].i - 1)
    ELSE DOMAIN TASKS[tid].targets

C17_Once ==
    \A tid \in DOMAIN TASKS :
        /\ \A i \in DOMAIN prober[tid] : (prober[tid][i].pc # "new") = (i \in Submitted(tid))
        /\ \A x, y \in DOMAIN queue[tid] : queue[tid][x] = queue[tid][y] => x = y
        /\ \A x \in DOMAIN queue[tid] : prober[tid][queue[tid][x]].pc = "queued"

C17_SubmitStep ==
    \A tid \in DOMAIN TASKS : \A i \in DOMAIN prober[tid] :
        (prober'[tid][i].pc = "queued" /\ prober[tid][i].pc # "queued")
            => prober[tid][i].pc = "new"

\* C17: the orchestrator hands every target index to the pool exactly once: an
\* index is submitted only while its prober has not been created, the queue
\* never holds an index twice, the indexes submitted so far are those below the
\* loop's position, and once the loop is over every index has been submitted.
C17_OneProberPerTarget == []C17_Once /\ [][C17_SubmitStep]_vars

\* C17, its case: the submit loop is over for three targets, one of which still
\* waits in the queue while another has already returned.
C17_Witness ==
    \E tid \in DOMAIN TASKS :
        /\ Len(TASKS[tid].targets) = 3
        /\ worker[tid].pc = "l184"
        /\ queue[tid] # <<>>
        /\ \E i \in DOMAIN prober[tid] : prober[tid][i].pc = "returned"

\* C18: two probers that work on different targets of one task never write to
\* the same output path: the paths under which the entries of the de-duplicated
\* target list store their matches are distinct.
C18_DistinctSavePaths ==
    \A x, y \in DOMAIN files :
        (x.task = y.task /\ x.path = y.path) => x.t = y.t

C19_FrozenStep ==
    \A tid \in DOMAIN TASKS :
        TASKS[tid].done => (tid \in DOMAIN TASKS' /\ TASKS'[tid] = TASKS[tid])

C19_CompletionLast ==
    \A tid \in DOMAIN TASKS :
        /\ TASKS[tid].done
              => /\ TASKS[tid].logs # <<>>
                 /\ TASKS[tid].logs[Len(TASKS[tid].logs)].k = "all_done"
                 /\ \A i \in DOMAIN prober[tid] : ~Executing(prober[tid][i])
        /\ LogCount(TASKS[tid], "all_done") <= 1

\* C19: once done is TRUE no step changes the task (its log, any target's status
\* or found count, finished_targets, done itself), and the last log entry is the
\* orchestrator's completion message, written once and before done was set.
C19_FrozenAfterDone == [][C19_FrozenStep]_vars /\ []C19_CompletionLast

\* C19, its case: a done task of two targets, one "done" with a match stored and
\* one whose prober raised, with the completion message as its last log entry.
C19_Witness ==
    \E tid \in DOMAIN TASKS :
        /\ TASKS[tid].done
        /\ worker[tid].pc = "exit"
        /\ \E i \in DOMAIN TASKS[tid].targets : TASKS[tid].targets[i].found = 1
        /\ Raised(tid) # {}
        /\ TASKS[tid].logs[Len(TASKS[tid].logs)].k = "all_done"

\* The probers of task tid that are past the increment of lines 149-150.
Counted(tid) == {i \in DOMAIN prober[tid] : prober[tid][i].pc \in {"l153", "returned"}}

C20_Bounds ==
    \A tid \in DOMAIN TASKS :
        LET task == TASKS[tid]
        IN  /\ task.finished_targets <= StatusCount(task, "done")
            /\ StatusCount(task, "done") <= task.total_targets
            /\ task.finished_targets = Cardinality(Counted(tid))
            /\ \A x, y \in DOMAIN task.logs :
                  (/\ task.logs[x].k = "target_done"
                   /\ task.logs[y].k = "target_done"
                   /\ task.logs[x].n = task.logs[y].n) => x = y
            /\ \A i, j \in Counted(tid) : prober[tid][i].n = prober[tid][j].n => i = j

C20_CountStep ==
    \A tid \in DOMAIN TASKS :
        \/ TASKS'[tid].finished_targets = TASKS[tid].finished_targets
        \/ /\ TASKS'[tid].finished_targets = TASKS[tid].finished_targets + 1
           /\ Cardinality(Counted(tid)') = Cardinality(Counted(tid)) + 1

\* C20: finished_targets <= number of targets with status "done" <= total_targets
\* in every state; finished_targets never goes down and goes up by exactly one
\* with each prober that completes, so that it counts those probers without a
\* lost update; the counts N in the milestone lines of distinct probers are
\* pairwise distinct.
C20_FinishedCounter == []C20_Bounds /\ [][C20_CountStep]_vars

\* C20, its case: the two probers of a task on two pool threads have both
\* completed and logged the milestones 1 and 2.
C20_Witness ==
    \E tid \in DOMAIN TASKS :
        /\ TASKS[tid].max_workers = 2
        /\ TASKS[tid].finished_targets = 2
        /\ \E x, y \in DOMAIN TASKS[tid].logs :
              /\ TASKS[tid].logs[x].k = "target_done" /\ TASKS[tid].logs[x].n = 1
              /\ TASKS[tid].logs[y].k = "target_done" /\ TASKS[tid].logs[y].n = 2

====
